---------------------------- MODULE Spec2Model ----------------------------
(***************************************************************************)
(* Verification model of the three concurrency primitives of the homework  *)
(* crate:                                                                  *)
(*   hello_server/cache.rs        Cache::get_or_insert_with                *)
(*   hello_server/thread_pool.rs  ThreadPool / Worker / ThreadPoolInner    *)
(*   list_set/fine_grained.rs     FineGrainedListSet (lock coupling)       *)
(* The three components share no state.  Each has its own initial          *)
(* predicate, next-state relation and specification; the variables of the  *)
(* other two components stay at their initial values.                      *)
(***************************************************************************)
EXTENDS Integers, Sequences, FiniteSets, TLC

VARIABLES
    \* ---- cache.rs ----
    inner,          \* HashMap<K, Arc<RwLock<Option<V>>>>: key -> Option<V>
    write_lock,     \* holder of the table RwLock's write guard (0: free)
    innerPoisoned,  \* the table RwLock is poisoned
    write_guard,    \* per key: holder of the slot RwLock's write guard (0: free)
    cpc,            \* per caller: position inside get_or_insert_with
    ckey,           \* per caller: the key of the current call
    cfail,          \* per caller: the factory of the current call panics
    cret,           \* per caller: Option<V> returned by the current call
    cwhy,           \* per caller: why the current call panicked
    ccalls,         \* per caller: calls started so far
    invoked,        \* per key: how many times a factory was invoked (history)
    sawStored,      \* per caller: the slot's content when the call began (history)
    poisonKey,      \* key of the call that poisoned the table (history, 0: none)
    \* ---- thread_pool.rs ----
    size,           \* number of workers given to ThreadPool::new
    job_sender,     \* ThreadPool.job_sender is Some (the sending side is open)
    queue,          \* the unbounded channel: jobs sent and not yet received
    job_count,      \* ThreadPoolInner.job_count
    empty_condvar,  \* ThreadPoolInner.empty_condvar: notifications issued on it
    wpc,            \* per worker: position inside the worker loop
    wjob,           \* per worker: the job it received (0: none)
    mpc,            \* the pool's owner: position (new / live / join / drop)
    dropIdx,        \* teardown: index of the next Worker of _workers to drop
    dropPanicking,  \* teardown: the owner thread is unwinding
    nextJob,        \* id of the next job to submit
    jstate,         \* per job: where the job is
    jfault,         \* per job: the job panics when run
    execRes,        \* per job: how its execute call ended (history)
    runs,           \* per job: how many times it ran to completion (history)
    ranBy,          \* per job: the workers that ran it (history)
    joined,         \* join() has returned at least once (history)
    joinSnap,       \* jobs submitted but unfinished when join() last returned (history)
    \* ---- fine_grained.rs ----
    nxt,            \* per slot: the pointer a Mutex<*mut Node> guards; slot 0 is
                    \* FineGrainedListSet.head, slot a is the `next` of the node at a
    data,           \* per address: Node.data
    locked,         \* per slot: the mutex is locked
    live,           \* addresses of the nodes allocated and not freed
    freed,          \* addresses freed and not allocated again
    crashed,        \* the process died on a null pointer dereference
    client,         \* the workload driving the set
    spc,            \* per thread: position inside its call
    sop,            \* per thread: the method called
    skey,           \* per thread: the key passed
    cursor,         \* per thread: the slot whose guard its Cursor holds (-1: none)
    want,           \* per thread: the slot whose mutex it is about to lock
    to_remove,      \* per thread: remove's local `to_remove`
    sret,           \* per thread: the value the call returned
    yielded,        \* per thread: the values its iterator has yielded
    sops,           \* per thread: calls started so far
    log,            \* the calls the sequential client has completed, in order
    prior,          \* the values in the set when the workload began
    inserted        \* the values whose insert call returned true

cacheVars == <<inner, write_lock, innerPoisoned, write_guard, cpc, ckey, cfail,
               cret, cwhy, ccalls, invoked, sawStored, poisonKey>>

poolVars == <<size, job_sender, queue, job_count, empty_condvar, wpc, wjob, mpc, dropIdx,
              dropPanicking, nextJob, jstate, jfault, execRes, runs, ranBy,
              joined, joinSnap>>

setVars == <<nxt, data, locked, live, freed, crashed, client, spc, sop, skey,
             cursor, want, to_remove, sret, yielded, sops, log, prior, inserted>>

vars == <<cacheVars, poolVars, setVars>>

\* What each component leaves alone: the other components.
notCache == <<poolVars, setVars>>
notPool == <<cacheVars, setVars>>
notSet == <<cacheVars, poolVars>>

-----------------------------------------------------------------------------
(***************************************************************************)
(* Bounds of the cache model.                                              *)
(***************************************************************************)
NCallers == 3
NKeys == 2
MaxCalls == 2

Callers == 1..NCallers
Keys == 1..NKeys

\* The workload of the calls made around a failing factory.
FailCallers == 2
FailKeys == 1
FailCalls == 1

\* Option<V>
None == [some |-> FALSE, v |-> 0]
Some(x) == [some |-> TRUE, v |-> x]

\* The value the factory passed by caller t computes for key k.  Every caller
\* passes its own closure, so the results are distinguishable.
Factory(t, k) == k * (NCallers + 1) + t

(***************************************************************************)
(* Bounds of the thread pool model.                                        *)
(***************************************************************************)
MaxSize == 2
MaxJobs == 2

Workers == 1..MaxSize
Jobs == 1..MaxJobs

\* usize::MAX.  The model's usize is 16 bits wide; job_count never exceeds the
\* pool size, so every width above that gives the same behaviours.
UsizeMax == 2^16 - 1

\* The `!` operator on usize: bitwise complement.
Not(x) == UsizeMax - x

(***************************************************************************)
(* Bounds of the sorted set model.                                         *)
(***************************************************************************)
MaxAddr == 6
MaxVal == 5
NSetThreads == 3
MaxOps == 2
SeqOps == 3
MaxPrior == 2

Addr == 1..MaxAddr
Slots == 0..MaxAddr
Values == 0..MaxVal
SThreads == 1..NSetThreads

-----------------------------------------------------------------------------
(***************************************************************************)
(* cache.rs                                                                *)
(***************************************************************************)
CacheInit ==
    /\ inner = <<>>
    /\ write_lock = 0
    /\ innerPoisoned = FALSE
    /\ write_guard = [k \in Keys |-> 0]
    /\ cpc = [t \in Callers |-> "idle"]
    /\ ckey = [t \in Callers |-> 0]
    /\ cfail = [t \in Callers |-> FALSE]
    /\ cret = [t \in Callers |-> None]
    /\ cwhy = [t \in Callers |-> "none"]
    /\ ccalls = [t \in Callers |-> 0]
    /\ invoked = [k \in Keys |-> 0]
    /\ sawStored = [t \in Callers |-> None]
    /\ poisonKey = 0

\* The cache before any call, for the specifications of the other components.
CacheIdle == CacheInit

\* A thread calls get_or_insert_with(key, f); it first queues for the table's
\* write lock (line 64).
get_or_insert_with(t, k, fails) ==
    /\ cpc[t] \in {"idle", "returned"}
    /\ ccalls[t] < MaxCalls
    /\ cpc' = [cpc EXCEPT ![t] = "write"]
    /\ ckey' = [ckey EXCEPT ![t] = k]
    /\ cfail' = [cfail EXCEPT ![t] = fails]
    /\ cret' = [cret EXCEPT ![t] = None]
    /\ ccalls' = [ccalls EXCEPT ![t] = @ + 1]
    /\ sawStored' = [sawStored EXCEPT ![t] = IF k \in DOMAIN inner THEN inner[k] ELSE None]
    /\ UNCHANGED <<inner, write_lock, innerPoisoned, write_guard, cwhy, invoked, poisonKey>>
    /\ UNCHANGED notCache

\* self.inner.write().unwrap() (line 64) followed by the match on the entry
\* (line 65).  A poisoned table makes unwrap panic (the guard inside the error
\* is dropped at once).  Vacant: the slot is inserted empty and the table lock
\* dropped before the factory runs (lines 72-75).  Occupied: the table lock
\* stays held while the slot's read lock is requested (lines 67-68).
TableWrite(t) ==
    /\ cpc[t] = "write"
    /\ write_lock = 0
    /\ IF innerPoisoned
       THEN /\ cpc' = [cpc EXCEPT ![t] = "panicked"]
            /\ cwhy' = [cwhy EXCEPT ![t] = "poisoned"]
            /\ UNCHANGED <<inner, write_lock, invoked>>
       ELSE IF ckey[t] \in DOMAIN inner
       THEN /\ write_lock' = t
            /\ cpc' = [cpc EXCEPT ![t] = "read"]
            /\ UNCHANGED <<inner, cwhy, invoked>>
       ELSE /\ inner' = (ckey[t] :> None) @@ inner
            /\ invoked' = [invoked EXCEPT ![ckey[t]] = @ + 1]
            /\ cpc' = [cpc EXCEPT ![t] = "factory"]
            /\ UNCHANGED <<write_lock, cwhy>>
    /\ UNCHANGED <<innerPoisoned, write_guard, ckey, cfail, cret, ccalls, sawStored, poisonKey>>
    /\ UNCHANGED notCache

\* A cache that runs the caller's factory when it finds the slot empty.
SlotReadRetry(t) ==
    /\ cpc[t] = "read"
    /\ write_guard[ckey[t]] = 0
    /\ write_lock' = 0
    /\ IF inner[ckey[t]].some
       THEN /\ cret' = [cret EXCEPT ![t] = inner[ckey[t]]]
            /\ cpc' = [cpc EXCEPT ![t] = "returned"]
            /\ UNCHANGED invoked
       ELSE /\ cpc' = [cpc EXCEPT ![t] = "factory"]
            /\ invoked' = [invoked EXCEPT ![ckey[t]] = @ + 1]
            /\ UNCHANGED cret
    /\ UNCHANGED <<inner, innerPoisoned, write_guard, ckey, cfail, cwhy, ccalls,
                   sawStored, poisonKey>>
    /\ UNCHANGED notCache

\* Occupied branch, lines 68-69: stored_value.read().unwrap() waits for the
\* slot's writer, then read_guard.clone().unwrap() panics when the slot still
\* holds None.  The panic unwinds through the table's write guard, which
\* poisons the table; the slot's read guard does not poison.  The slot holds
\* None because the factory of its key is still running ("unready") or
\* because it has panicked ("failed").
SlotRead(t) ==
    /\ cpc[t] = "read"
    /\ write_guard[ckey[t]] = 0
    /\ write_lock' = 0
    /\ IF inner[ckey[t]].some
       THEN /\ cret' = [cret EXCEPT ![t] = inner[ckey[t]]]
            /\ cpc' = [cpc EXCEPT ![t] = "returned"]
            /\ UNCHANGED <<innerPoisoned, cwhy, poisonKey>>
       ELSE /\ cpc' = [cpc EXCEPT ![t] = "panicked"]
            /\ cwhy' = [cwhy EXCEPT ![t] =
                          IF \E u \in Callers : cwhy[u] = "factory" /\ ckey[u] = ckey[t]
                          THEN "failed" ELSE "unready"]
            /\ innerPoisoned' = TRUE
            /\ poisonKey' = IF innerPoisoned THEN poisonKey ELSE ckey[t]
            /\ UNCHANGED cret
    /\ UNCHANGED <<inner, write_guard, ckey, cfail, ccalls, invoked, sawStored>>
    /\ UNCHANGED notCache

\* Vacant branch, line 75: f(key) returns, or panics.  No lock is held while
\* it runs, so a panic poisons nothing and leaves the slot at None.
FactoryReturns(t) ==
    /\ cpc[t] = "factory"
    /\ IF cfail[t]
       THEN /\ cpc' = [cpc EXCEPT ![t] = "panicked"]
            /\ cwhy' = [cwhy EXCEPT ![t] = "factory"]
       ELSE /\ cpc' = [cpc EXCEPT ![t] = "store"]
            /\ UNCHANGED cwhy
    /\ UNCHANGED <<inner, write_lock, innerPoisoned, write_guard, ckey, cfail, cret,
                   ccalls, invoked, sawStored, poisonKey>>
    /\ UNCHANGED notCache

\* Vacant branch, line 76: value.write().unwrap().
SlotWrite(t) ==
    /\ cpc[t] = "store"
    /\ write_guard[ckey[t]] = 0
    /\ write_guard' = [write_guard EXCEPT ![ckey[t]] = t]
    /\ cpc' = [cpc EXCEPT ![t] = "stored"]
    /\ UNCHANGED <<inner, write_lock, innerPoisoned, ckey, cfail, cret, cwhy,
                   ccalls, invoked, sawStored, poisonKey>>
    /\ UNCHANGED notCache

\* Vacant branch, lines 77-78: the value is stored and returned; the slot's
\* write guard is dropped on return.
StoreReturn(t) ==
    /\ cpc[t] = "stored"
    /\ inner' = [inner EXCEPT ![ckey[t]] = Some(Factory(t, ckey[t]))]
    /\ write_guard' = [write_guard EXCEPT ![ckey[t]] = 0]
    /\ cret' = [cret EXCEPT ![t] = Some(Factory(t, ckey[t]))]
    /\ cpc' = [cpc EXCEPT ![t] = "returned"]
    /\ UNCHANGED <<write_lock, innerPoisoned, ckey, cfail, cwhy, ccalls, invoked,
                   sawStored, poisonKey>>
    /\ UNCHANGED notCache

CacheNext ==
    \E t \in Callers :
        \/ \E k \in Keys, fails \in BOOLEAN : get_or_insert_with(t, k, fails)
        \/ TableWrite(t)
        \/ SlotRead(t)
        \/ FactoryReturns(t)
        \/ SlotWrite(t)
        \/ StoreReturn(t)

-----------------------------------------------------------------------------
(***************************************************************************)
(* thread_pool.rs                                                          *)
(***************************************************************************)
PoolInit ==
    /\ size = 0
    /\ job_sender = FALSE
    /\ queue = <<>>
    /\ job_count = 0
    /\ empty_condvar = 0
    /\ wpc = [w \in Workers |-> "unspawned"]
    /\ wjob = [w \in Workers |-> 0]
    /\ mpc = "new"
    /\ dropIdx = 0
    /\ dropPanicking = FALSE
    /\ nextJob = 1
    /\ jstate = [j \in Jobs |-> "unsubmitted"]
    /\ jfault = [j \in Jobs |-> FALSE]
    /\ execRes = [j \in Jobs |-> "none"]
    /\ runs = [j \in Jobs |-> 0]
    /\ ranBy = [j \in Jobs |-> {}]
    /\ joined = FALSE
    /\ joinSnap = {}

\* The pool before construction, for the specifications of the other components.
PoolIdle == PoolInit

\* Workers whose thread still owns a clone of the receiver.
Receiving == {w \in 1..size : wpc[w] \in {"recv", "received", "running", "ran"}}

\* Jobs submitted and not yet finished.
Unfinished == {j \in Jobs : jstate[j] \in {"queued", "received", "running"}}

\* ThreadPool::new(size), lines 81-118: assert!(size > 0), then one thread per
\* worker, each entering the loop at recv().
new(n) ==
    /\ mpc = "new"
    /\ IF n > 0
       THEN /\ size' = n
            /\ job_sender' = TRUE
            /\ wpc' = [w \in Workers |-> IF w <= n THEN "recv" ELSE "unspawned"]
            /\ mpc' = "live"
       ELSE /\ mpc' = "new_panicked"
            /\ UNCHANGED <<size, job_sender, wpc>>
    /\ UNCHANGED <<empty_condvar, queue, job_count, wjob, dropIdx, dropPanicking, nextJob, jstate,
                   jfault, execRes, runs, ranBy, joined, joinSnap>>
    /\ UNCHANGED notPool

\* execute with the result of send() discarded instead of expect()ed.
executeSwallow(fault) ==
    /\ mpc = "live"
    /\ nextJob <= MaxJobs
    /\ nextJob' = nextJob + 1
    /\ jfault' = [jfault EXCEPT ![nextJob] = fault]
    /\ IF job_sender /\ Receiving # {}
       THEN /\ queue' = Append(queue, nextJob)
            /\ jstate' = [jstate EXCEPT ![nextJob] = "queued"]
       ELSE /\ jstate' = [jstate EXCEPT ![nextJob] = "dropped"]
            /\ UNCHANGED queue
    /\ execRes' = [execRes EXCEPT ![nextJob] = "ok"]
    /\ UNCHANGED <<empty_condvar, size, job_sender, job_count, wpc, wjob, mpc, dropIdx, dropPanicking,
                   runs, ranBy, joined, joinSnap>>
    /\ UNCHANGED notPool

\* ThreadPool::execute, lines 121-129.  With a sender, send() fails only when
\* every receiver is gone, and expect() then panics in the caller; without a
\* sender the job is dropped and the call returns.
execute(fault) ==
    /\ mpc = "live"
    /\ nextJob <= MaxJobs
    /\ nextJob' = nextJob + 1
    /\ jfault' = [jfault EXCEPT ![nextJob] = fault]
    /\ IF job_sender
       THEN IF Receiving # {}
            THEN /\ queue' = Append(queue, nextJob)
                 /\ jstate' = [jstate EXCEPT ![nextJob] = "queued"]
                 /\ execRes' = [execRes EXCEPT ![nextJob] = "ok"]
                 /\ UNCHANGED mpc
            ELSE /\ jstate' = [jstate EXCEPT ![nextJob] = "dropped"]
                 /\ execRes' = [execRes EXCEPT ![nextJob] = "panic"]
                 /\ mpc' = "unwinding"
                 /\ UNCHANGED queue
       ELSE /\ jstate' = [jstate EXCEPT ![nextJob] = "dropped"]
            /\ execRes' = [execRes EXCEPT ![nextJob] = "ok"]
            /\ UNCHANGED <<queue, mpc>>
    /\ UNCHANGED <<empty_condvar, size, job_sender, job_count, wpc, wjob, dropIdx, dropPanicking,
                   runs, ranBy, joined, joinSnap>>
    /\ UNCHANGED notPool

\* ThreadPool::join, lines 134-136: the caller enters wait_empty.
join ==
    /\ mpc = "live"
    /\ mpc' = "join"
    /\ UNCHANGED <<empty_condvar, size, job_sender, queue, job_count, wpc, wjob, dropIdx,
                   dropPanicking, nextJob, jstate, jfault, execRes, runs, ranBy,
                   joined, joinSnap>>
    /\ UNCHANGED notPool

\* ThreadPoolInner::wait_empty, lines 58-64: under the job_count mutex, the
\* loop `while !*cnt == 0` is left as soon as its condition is false.  While
\* the condition is true the caller sleeps on empty_condvar.
wait_empty ==
    /\ mpc = "join"
    /\ ~(Not(job_count) = 0)
    /\ mpc' = "live"
    /\ joined' = TRUE
    /\ joinSnap' = Unfinished
    /\ UNCHANGED <<empty_condvar, size, job_sender, queue, job_count, wpc, wjob, dropIdx,
                   dropPanicking, nextJob, jstate, jfault, execRes, runs, ranBy>>
    /\ UNCHANGED notPool

\* The worker loop leaving as soon as the sender is dropped, jobs still queued.
recvNoDrain(w) ==
    /\ w <= size
    /\ wpc[w] = "recv"
    /\ IF ~job_sender
       THEN /\ wpc' = [wpc EXCEPT ![w] = "exited"]
            /\ UNCHANGED <<wjob, queue, jstate>>
       ELSE /\ queue # <<>>
            /\ wjob' = [wjob EXCEPT ![w] = Head(queue)]
            /\ queue' = Tail(queue)
            /\ jstate' = [jstate EXCEPT ![Head(queue)] = "received"]
            /\ wpc' = [wpc EXCEPT ![w] = "received"]
    /\ UNCHANGED <<empty_condvar, size, job_sender, job_count, mpc, dropIdx, dropPanicking, nextJob,
                   jfault, execRes, runs, ranBy, joined, joinSnap>>
    /\ UNCHANGED notPool

\* The worker loop, lines 93-94 and 102-105: recv() takes the oldest job, or
\* fails once the channel is empty and the sender dropped, which ends the loop.
recv(w) ==
    /\ w <= size
    /\ wpc[w] = "recv"
    /\ IF queue # <<>>
       THEN /\ wjob' = [wjob EXCEPT ![w] = Head(queue)]
            /\ queue' = Tail(queue)
            /\ jstate' = [jstate EXCEPT ![Head(queue)] = "received"]
            /\ wpc' = [wpc EXCEPT ![w] = "received"]
       ELSE /\ ~job_sender
            /\ wpc' = [wpc EXCEPT ![w] = "exited"]
            /\ UNCHANGED <<wjob, queue, jstate>>
    /\ UNCHANGED <<empty_condvar, size, job_sender, job_count, mpc, dropIdx, dropPanicking, nextJob,
                   jfault, execRes, runs, ranBy, joined, joinSnap>>
    /\ UNCHANGED notPool

\* ThreadPoolInner::start_job, lines 41-45, called at line 96.
start_job(w) ==
    /\ w <= size
    /\ wpc[w] = "received"
    /\ job_count' = job_count + 1
    /\ jstate' = [jstate EXCEPT ![wjob[w]] = "running"]
    /\ wpc' = [wpc EXCEPT ![w] = "running"]
    /\ UNCHANGED <<empty_condvar, size, job_sender, queue, wjob, mpc, dropIdx, dropPanicking, nextJob,
                   jfault, execRes, runs, ranBy, joined, joinSnap>>
    /\ UNCHANGED notPool

\* Line 98: (job.0)() runs to completion, or panics and kills the worker
\* thread.  The thread's receiver goes with it; the channel discards what is
\* queued once no receiver is left.
RunJob(w) ==
    /\ w <= size
    /\ wpc[w] = "running"
    /\ IF jfault[wjob[w]]
       THEN /\ wpc' = [wpc EXCEPT ![w] = "panicked"]
            /\ IF Receiving = {w}
               THEN /\ queue' = <<>>
                    /\ jstate' = [j \in Jobs |->
                                    IF j = wjob[w] THEN "faulted"
                                    ELSE IF jstate[j] = "queued" THEN "discarded"
                                    ELSE jstate[j]]
               ELSE /\ jstate' = [jstate EXCEPT ![wjob[w]] = "faulted"]
                    /\ UNCHANGED queue
            /\ UNCHANGED <<runs, ranBy>>
       ELSE /\ wpc' = [wpc EXCEPT ![w] = "ran"]
            /\ jstate' = [jstate EXCEPT ![wjob[w]] = "finished"]
            /\ runs' = [runs EXCEPT ![wjob[w]] = @ + 1]
            /\ ranBy' = [ranBy EXCEPT ![wjob[w]] = @ \cup {w}]
            /\ UNCHANGED queue
    /\ UNCHANGED <<empty_condvar, size, job_sender, job_count, wjob, mpc, dropIdx, dropPanicking,
                   nextJob, jfault, execRes, joined, joinSnap>>
    /\ UNCHANGED notPool

\* finish_job leaving the counter as it is.
finish_jobKeep(w) ==
    /\ w <= size
    /\ wpc[w] = "ran"
    /\ wjob' = [wjob EXCEPT ![w] = 0]
    /\ wpc' = [wpc EXCEPT ![w] = "recv"]
    /\ UNCHANGED <<empty_condvar, size, job_sender, queue, job_count, mpc, dropIdx,
                   dropPanicking, nextJob, jstate, jfault, execRes, runs, ranBy,
                   joined, joinSnap>>
    /\ UNCHANGED notPool

\* ThreadPoolInner::finish_job, lines 48-52, called at line 99; the loop then
\* returns to recv().  Nothing is notified on empty_condvar.
finish_job(w) ==
    /\ w <= size
    /\ wpc[w] = "ran"
    /\ job_count' = job_count - 1
    /\ wjob' = [wjob EXCEPT ![w] = 0]
    /\ wpc' = [wpc EXCEPT ![w] = "recv"]
    /\ UNCHANGED <<empty_condvar, size, job_sender, queue, mpc, dropIdx, dropPanicking, nextJob,
                   jstate, jfault, execRes, runs, ranBy, joined, joinSnap>>
    /\ UNCHANGED notPool

\* Drop for ThreadPool, lines 142-144: the sender is taken and dropped, then
\* the fields are dropped in declaration order, _workers first.  The drop
\* also runs when the owner unwinds from a panicking execute.
DropPool ==
    /\ mpc \in {"live", "unwinding"}
    /\ job_sender' = FALSE
    /\ dropPanicking' = (mpc = "unwinding")
    /\ dropIdx' = 1
    /\ mpc' = "drop"
    /\ UNCHANGED <<empty_condvar, size, queue, job_count, wpc, wjob, nextJob, jstate, jfault,
                   execRes, runs, ranBy, joined, joinSnap>>
    /\ UNCHANGED notPool

\* Drop for Worker with the result of thread.join() discarded.
DropWorkerSwallow ==
    /\ mpc = "drop"
    /\ wpc[dropIdx] \in {"exited", "panicked"}
    /\ dropIdx' = dropIdx + 1
    /\ mpc' = IF dropIdx < size THEN "drop"
              ELSE IF dropPanicking THEN "drop_panicked" ELSE "dropped"
    /\ UNCHANGED <<empty_condvar, size, job_sender, queue, job_count, wpc, wjob, dropPanicking, nextJob,
                   jstate, jfault, execRes, runs, ranBy, joined, joinSnap>>
    /\ UNCHANGED notPool

\* Drop for Worker, lines 22-28, for the workers of _workers in order:
\* thread.join() waits for the thread to end and unwrap() panics when the
\* thread panicked.  A panic in one Worker's drop still drops the remaining
\* ones; a second panic while unwinding aborts the process.
DropWorker ==
    /\ mpc = "drop"
    /\ wpc[dropIdx] \in {"exited", "panicked"}
    /\ IF wpc[dropIdx] = "panicked" /\ dropPanicking
       THEN /\ mpc' = "aborted"
            /\ UNCHANGED <<dropIdx, dropPanicking>>
       ELSE /\ dropPanicking' = (dropPanicking \/ wpc[dropIdx] = "panicked")
            /\ dropIdx' = dropIdx + 1
            /\ mpc' = IF dropIdx < size THEN "drop"
                      ELSE IF dropPanicking' THEN "drop_panicked" ELSE "dropped"
    /\ UNCHANGED <<empty_condvar, size, job_sender, queue, job_count, wpc, wjob, nextJob, jstate,
                   jfault, execRes, runs, ranBy, joined, joinSnap>>
    /\ UNCHANGED notPool

WorkerStep(w) ==
    \/ recv(w)
    \/ start_job(w)
    \/ RunJob(w)
    \/ finish_job(w)

PoolNext ==
    \/ \E n \in 0..MaxSize : new(n)
    \/ \E fault \in BOOLEAN : execute(fault)
    \/ join
    \/ wait_empty
    \/ \E w \in Workers : WorkerStep(w)
    \/ DropPool
    \/ DropWorker

-----------------------------------------------------------------------------
(***************************************************************************)
(* fine_grained.rs                                                         *)
(*                                                                         *)
(* Memory is a finite set of addresses.  A node lives at an address; its   *)
(* mutex and its `next` pointer are the slot of that address.  Freed       *)
(* memory keeps its contents and may be handed out again by the allocator; *)
(* an access through a stale pointer reads or writes whatever is at the    *)
(* address at that time.                                                   *)
(***************************************************************************)
RECURSIVE SortedSeq(_)
\* The values of S in increasing order.
SortedSeq(S) ==
    IF S = {} THEN <<>>
    ELSE LET m == CHOOSE x \in S : \A y \in S : x <= y
         IN <<m>> \o SortedSeq(S \ {m})

\* FineGrainedListSet::new (lines 69-73) followed by inserts of the values of S
\* by one thread: the node of the i-th smallest value is at address i.
SetInit(c, S) ==
    /\ nxt = [s \in Slots |-> IF s < Cardinality(S) THEN s + 1 ELSE 0]
    /\ data = [a \in Addr |-> IF a <= Cardinality(S) THEN SortedSeq(S)[a] ELSE 0]
    /\ locked = [s \in Slots |-> FALSE]
    /\ live = 1..Cardinality(S)
    /\ freed = {}
    /\ crashed = FALSE
    /\ client = c
    /\ spc = [t \in SThreads |-> "idle"]
    /\ sop = [t \in SThreads |-> "none"]
    /\ skey = [t \in SThreads |-> 0]
    /\ cursor = [t \in SThreads |-> -1]
    /\ want = [t \in SThreads |-> 0]
    /\ to_remove = [t \in SThreads |-> 0]
    /\ sret = [t \in SThreads |-> "none"]
    /\ yielded = [t \in SThreads |-> <<>>]
    /\ sops = [t \in SThreads |-> 0]
    /\ log = <<>>
    /\ prior = S
    /\ inserted = {}

\* The set untouched, for the specifications of the other components.
SetIdle == SetInit("none", {})

RECURSIVE ChainFrom(_, _)
\* The addresses reached from pointer p by following `next`, at most n of them.
ChainFrom(p, n) ==
    IF p = 0 \/ n = 0 THEN <<>> ELSE <<p>> \o ChainFrom(nxt[p], n - 1)

\* The chain from the head.  A chain longer than the memory holds a cycle.
Chain == ChainFrom(nxt[0], MaxAddr + 1)

\* A mutex that lets every caller in.
MutexBroken(s) == TRUE

\* Mutex::lock returns once the mutex of slot s is not locked (lines 57, 78,
\* 119, 120, 141 and 152); until then the caller waits.
MutexFree(s) == ~locked[s]

\* Inserts that have not allocated their node yet.
PendingInserts == {u \in SThreads : sop[u] = "insert" /\ spc[u] \in {"lock", "link"}}

\* The addresses Box::new may return: any freed one, or the lowest never used.
AllocChoices ==
    LET unused == Addr \ (live \cup freed)
    IN freed \cup {a \in unused : \A b \in unused : a <= b}

\* The sequential client records every call it completes.
Logged(t, r) ==
    IF client = "sequential"
    THEN Append(log, [op |-> sop[t], key |-> skey[t], ret |-> r])
    ELSE log

\* A thread enters contains, insert, remove or iter: each starts by locking
\* the head (lines 78 and 141).
Begin(t, op, k) ==
    /\ ~crashed
    /\ spc[t] \in {"idle", "done"}
    /\ op = "insert" => Cardinality(live) + Cardinality(PendingInserts) < MaxAddr
    /\ spc' = [spc EXCEPT ![t] = "lock"]
    /\ sop' = [sop EXCEPT ![t] = op]
    /\ skey' = [skey EXCEPT ![t] = k]
    /\ want' = [want EXCEPT ![t] = 0]
    /\ sret' = [sret EXCEPT ![t] = "none"]
    /\ yielded' = [yielded EXCEPT ![t] = <<>>]
    /\ sops' = [sops EXCEPT ![t] = @ + 1]
    /\ UNCHANGED <<nxt, data, locked, live, freed, crashed, client, cursor,
                   to_remove, log, prior, inserted>>
    /\ UNCHANGED notSet

\* One client thread calling the four methods one after the other.
CallSeq(t, op, k) ==
    /\ client = "sequential"
    /\ t = 1
    /\ sop[t] # "drop"
    /\ sops[t] < SeqOps
    /\ op \in {"contains", "insert", "remove", "iter"}
    /\ op = "iter" => k = 0
    /\ Begin(t, op, k)

\* The client lets go of the set: Drop for FineGrainedListSet (lines 161-165)
\* runs `for _ in self.iter() {}`, a traversal like any other iteration, and
\* does nothing else.  The set is not used afterwards.
DropSet(t) ==
    /\ client = "sequential"
    /\ t = 1
    /\ sop[t] # "drop"
    /\ Begin(t, "drop", 0)

\* Threads inserting pairwise disjoint sets of values, none of them in the
\* set before: value k belongs to thread (k % NSetThreads) + 1.
CallIns(t, k) ==
    /\ client = "inserters"
    /\ sops[t] < MaxOps
    /\ k \notin prior \cup inserted
    /\ k % NSetThreads = t - 1
    /\ Begin(t, "insert", k)

\* Thread 1 removes values the set held at the start while the other threads
\* insert values it did not hold.
CallStress(t, op, k) ==
    /\ client = "stress"
    /\ sops[t] < MaxOps
    /\ IF t = 1 THEN op = "remove" /\ k \in prior
                ELSE op = "insert" /\ k \notin prior
    /\ Begin(t, op, k)

\* One step of the traversal: the thread locks the mutex of slot want[t] and
\* only then lets go of the guard it held (the assignments at lines 58 and
\* 152), and looks at the node the slot points to.
\*   Cursor::find (lines 48-64): equal key: found; greater key or null: not
\*   found; smaller key: go on to the node's own `next`.
\*   contains (line 86), insert (lines 90-93) and remove (lines 102-105) return
\*   at once on found / not found and drop the guard, or go on to their update.
\*   Iter::next (lines 149-157): yields the data of the node whose `next` has
\*   just been locked; a null slot ends the iteration and the guard is dropped.
\*   The loop of Drop (line 163) is such an iteration.
Lock(t) ==
    /\ ~crashed
    /\ spc[t] = "lock"
    /\ MutexFree(want[t])
    /\ LET s == want[t]
           p == nxt[s]
           taken == [locked EXCEPT ![s] = TRUE]
           held == IF cursor[t] = -1 THEN taken ELSE [taken EXCEPT ![cursor[t]] = FALSE]
           found == p # 0 /\ data[p] = skey[t]
           less == p # 0 /\ data[p] < skey[t]
           GoOn == /\ locked' = held
                   /\ cursor' = [cursor EXCEPT ![t] = s]
                   /\ want' = [want EXCEPT ![t] = p]
                   /\ UNCHANGED <<spc, sret, log>>
           Keep(pc) == /\ locked' = held
                       /\ cursor' = [cursor EXCEPT ![t] = s]
                       /\ spc' = [spc EXCEPT ![t] = pc]
                       /\ UNCHANGED <<want, sret, log>>
           Return(r) == /\ locked' = [held EXCEPT ![s] = FALSE]
                        /\ cursor' = [cursor EXCEPT ![t] = -1]
                        /\ spc' = [spc EXCEPT ![t] = "done"]
                        /\ sret' = [sret EXCEPT ![t] = r]
                        /\ log' = Logged(t, r)
                        /\ UNCHANGED want
       IN IF sop[t] \in {"iter", "drop"}
          THEN /\ yielded' = IF s = 0 THEN yielded
                             ELSE [yielded EXCEPT ![t] = Append(@, data[s])]
               /\ IF p = 0 THEN Return("end") ELSE GoOn
          ELSE /\ UNCHANGED yielded
               /\ IF less THEN GoOn
                  ELSE IF sop[t] = "contains" THEN Return(IF found THEN "true" ELSE "false")
                  ELSE IF sop[t] = "insert"
                       THEN IF found THEN Return("false") ELSE Keep("link")
                  ELSE IF found THEN Keep("rm_take") ELSE Return("false")
    /\ UNCHANGED <<nxt, data, live, freed, crashed, client, sop, skey, to_remove,
                   sops, prior, inserted>>
    /\ UNCHANGED notSet

\* insert, lines 94-98, under the guard the cursor holds: the new node gets
\* the slot's pointer as its `next` and the slot is pointed at the new node;
\* the guard is dropped on return.
InsertLink(t) ==
    /\ ~crashed
    /\ spc[t] = "link"
    /\ \E a \in AllocChoices :
          /\ data' = [data EXCEPT ![a] = skey[t]]
          /\ nxt' = [[nxt EXCEPT ![a] = nxt[cursor[t]]] EXCEPT ![cursor[t]] = a]
          /\ locked' = [[locked EXCEPT ![a] = FALSE] EXCEPT ![cursor[t]] = FALSE]
          /\ live' = live \cup {a}
          /\ freed' = freed \ {a}
    /\ spc' = [spc EXCEPT ![t] = "done"]
    /\ sret' = [sret EXCEPT ![t] = "true"]
    /\ cursor' = [cursor EXCEPT ![t] = -1]
    /\ log' = Logged(t, "true")
    /\ inserted' = IF client = "inserters" THEN inserted \cup {skey[t]} ELSE inserted
    /\ UNCHANGED <<crashed, client, sop, skey, want, to_remove, yielded, sops, prior>>
    /\ UNCHANGED notSet

\* remove, lines 118-119: `node` is the node the cursor's slot points to, the
\* one holding the key.  Its `next` mutex is locked for the length of the
\* statement: the pointer in it is replaced by null and kept as to_remove.
RemoveTake(t) ==
    /\ ~crashed
    /\ spc[t] = "rm_take"
    /\ LET node == nxt[cursor[t]]
       IN IF node = 0
          THEN /\ locked' = [locked EXCEPT ![cursor[t]] = FALSE]
               /\ cursor' = [cursor EXCEPT ![t] = -1]
               /\ spc' = [spc EXCEPT ![t] = "done"]
               /\ sret' = [sret EXCEPT ![t] = "true"]
               /\ log' = Logged(t, "true")
               /\ UNCHANGED <<nxt, to_remove>>
          ELSE /\ MutexFree(node)
               /\ to_remove' = [to_remove EXCEPT ![t] = nxt[node]]
               /\ nxt' = [nxt EXCEPT ![node] = 0]
               /\ spc' = [spc EXCEPT ![t] = "rm_lock"]
               /\ UNCHANGED <<locked, cursor, sret, log>>
    /\ UNCHANGED <<data, live, freed, crashed, client, sop, skey, want, yielded,
                   sops, prior, inserted>>
    /\ UNCHANGED notSet

\* remove, lines 120-125: (*to_remove).next is locked, which dereferences a
\* null to_remove when the key's node was the last one and ends the process;
\* the pointer found there is written into the cursor's slot, and the node at
\* to_remove is freed while the guard next_next on its mutex is still alive.
RemoveLock(t) ==
    /\ ~crashed
    /\ spc[t] = "rm_lock"
    /\ IF to_remove[t] = 0
       THEN /\ crashed' = TRUE
            /\ spc' = [spc EXCEPT ![t] = "crashed"]
            /\ UNCHANGED <<nxt, locked, live, freed>>
       ELSE /\ MutexFree(to_remove[t])
            /\ locked' = [locked EXCEPT ![to_remove[t]] = TRUE]
            /\ nxt' = [nxt EXCEPT ![cursor[t]] = nxt[to_remove[t]]]
            /\ live' = live \ {to_remove[t]}
            /\ freed' = freed \cup {to_remove[t]}
            /\ spc' = [spc EXCEPT ![t] = "rm_unlock"]
            /\ UNCHANGED crashed
    /\ UNCHANGED <<data, client, sop, skey, cursor, want, to_remove, sret, yielded,
                   sops, log, prior, inserted>>
    /\ UNCHANGED notSet

\* remove, lines 126-129: the guard next_next is dropped, which unlocks the
\* mutex at the freed address, then the cursor's guard; remove returns true.
RemoveUnlock(t) ==
    /\ ~crashed
    /\ spc[t] = "rm_unlock"
    /\ locked' = [[locked EXCEPT ![to_remove[t]] = FALSE] EXCEPT ![cursor[t]] = FALSE]
    /\ cursor' = [cursor EXCEPT ![t] = -1]
    /\ spc' = [spc EXCEPT ![t] = "done"]
    /\ sret' = [sret EXCEPT ![t] = "true"]
    /\ log' = Logged(t, "true")
    /\ UNCHANGED <<nxt, data, live, freed, crashed, client, sop, skey, want,
                   to_remove, yielded, sops, prior, inserted>>
    /\ UNCHANGED notSet

SetSeqNext ==
    \E t \in SThreads :
        \/ \E op \in {"contains", "insert", "remove", "iter"}, k \in Values : CallSeq(t, op, k)
        \/ DropSet(t)
        \/ Lock(t)
        \/ InsertLink(t)
        \/ RemoveTake(t)
        \/ RemoveLock(t)
        \/ RemoveUnlock(t)

SetInsNext ==
    \E t \in SThreads :
        \/ \E k \in Values : CallIns(t, k)
        \/ Lock(t)
        \/ InsertLink(t)

SetStressNext ==
    \E t \in SThreads :
        \/ \E op \in {"insert", "remove"}, k \in Values : CallStress(t, op, k)
        \/ Lock(t)
        \/ InsertLink(t)
        \/ RemoveTake(t)
        \/ RemoveLock(t)
        \/ RemoveUnlock(t)

-----------------------------------------------------------------------------
(***************************************************************************)
(* Specifications, one per component.                                      *)
(***************************************************************************)
CacheSpecInit == CacheInit /\ PoolIdle /\ SetIdle

CacheSpec == CacheSpecInit /\ [][CacheNext]_vars

\* The steps of caller t that wait for nothing but a lock: every step of its
\* call except the return of its factory, which is the caller's code.
CallerStep(t) == TableWrite(t) \/ SlotRead(t) \/ SlotWrite(t) \/ StoreReturn(t)

\* A few callers asking for a few keys, with factories that may fail.
CallFail(t, k, fails) ==
    /\ ccalls[t] < FailCalls
    /\ get_or_insert_with(t, k, fails)

CacheFailNext ==
    \E t \in 1..FailCallers :
        \/ \E k \in 1..FailKeys, fails \in BOOLEAN : CallFail(t, k, fails)
        \/ TableWrite(t)
        \/ SlotRead(t)
        \/ FactoryReturns(t)
        \/ SlotWrite(t)
        \/ StoreReturn(t)

CacheFailInit == CacheInit /\ PoolIdle /\ SetIdle

\* Every caller is a running thread; a factory may run for ever.
CacheFailSpec ==
    /\ CacheFailInit
    /\ [][CacheFailNext]_vars
    /\ \A t \in Callers : WF_vars(CallerStep(t))

PoolSpecInit == PoolInit /\ CacheIdle /\ SetIdle

PoolSpec == PoolSpecInit /\ [][PoolNext]_vars

\* Every worker is a running thread and every job run returns or panics;
\* the thread tearing the pool down keeps running.
PoolFairSpec ==
    /\ PoolSpec
    /\ \A w \in Workers : WF_vars(WorkerStep(w))
    /\ WF_vars(DropWorker)

\* One thread calling the methods of an empty set one after the other.
SetSeqInit == SetInit("sequential", {}) /\ CacheIdle /\ PoolIdle

SetSeqSpec == SetSeqInit /\ [][SetSeqNext]_vars

\* Threads inserting disjoint sets of values into a set that holds some.
SetInsInit ==
    /\ \E S \in SUBSET Values : Cardinality(S) <= MaxPrior /\ SetInit("inserters", S)
    /\ CacheIdle
    /\ PoolIdle

SetInsSpec == SetInsInit /\ [][SetInsNext]_vars

\* One removing and several inserting threads on a set that holds 0..3.
SetStressInit == SetInit("stress", 0..3) /\ CacheIdle /\ PoolIdle

SetStressSpec == SetStressInit /\ [][SetStressNext]_vars

\* The steps of thread t inside a call it has entered.
SetStep(t) ==
    Lock(t) \/ InsertLink(t) \/ RemoveTake(t) \/ RemoveLock(t) \/ RemoveUnlock(t)

\* Every thread inside a call is a running thread: it takes its next step
\* whenever the mutex it needs stays free.
SetStressFairSpec == SetStressSpec /\ \A t \in SThreads : WF_vars(SetStep(t))

-----------------------------------------------------------------------------
(***************************************************************************)
(* Claims about the cache, checked under CacheSpec.                        *)
(***************************************************************************)
\* No factory has panicked so far.
NoFactoryFailure == \A t \in Callers : cwhy[t] # "factory"

CallEnded(t) == cpc[t] \in {"returned", "panicked"}

\* C1: as long as no factory fails, the factory is invoked exactly once for
\* every key that a finished call asked for, and a call that starts when the
\* value of its key is already stored returns that value and never runs its
\* own factory.
C1_ExactlyOnce ==
    NoFactoryFailure =>
        /\ \A k \in Keys : invoked[k] <= 1
        /\ \A t \in Callers : CallEnded(t) => invoked[ckey[t]] = 1
        /\ \A t \in Callers : sawStored[t].some =>
               /\ cpc[t] \notin {"factory", "store", "stored"}
               /\ CallEnded(t) => (cpc[t] = "returned" /\ cret[t] = sawStored[t])

\* C2: as long as no factory fails, no call fails because the value of its
\* key is not ready yet, and every call that returned holds the value stored
\* for its key.
C2_WaitersGetValue ==
    NoFactoryFailure =>
        \A t \in Callers :
            /\ cwhy[t] # "unready"
            /\ cpc[t] = "returned" => (cret[t].some /\ cret[t] = inner[ckey[t]])

\* C3: a call is never made to fail by calls for another key: one that meets
\* a poisoned table asked for the key whose call poisoned it.
C3_CrossKey ==
    \A t \in Callers : cwhy[t] = "poisoned" => poisonKey = ckey[t]

-----------------------------------------------------------------------------
(***************************************************************************)
(* Claims about the thread pool, checked under PoolSpec and PoolFairSpec.  *)
(***************************************************************************)
\* C4: whenever join() has returned, every job submitted before it had
\* finished executing at that moment (the owner submits nothing while it
\* is inside join()).
C4_Barrier == joined => joinSnap = {}

NoFault == \A j \in Jobs : jstate[j] # "faulted"

TeardownReturned == mpc \in {"dropped", "drop_panicked"}

TeardownEnded == mpc \in {"dropped", "drop_panicked", "aborted"}

C5_TeardownSafe ==
    /\ mpc = "drop" \/ TeardownEnded => ~job_sender
    /\ \A w \in 1..size : wpc[w] = "exited" => (~job_sender /\ queue = <<>>)
    /\ TeardownReturned => \A w \in 1..size : wpc[w] \in {"exited", "panicked"}
    /\ \A j \in Jobs : runs[j] <= 1 /\ Cardinality(ranBy[j]) = runs[j]
    /\ TeardownReturned /\ NoFault =>
           \A j \in Jobs : execRes[j] # "none" =>
               (jstate[j] = "finished" /\ runs[j] = 1)

\* C5: teardown closes the sending side; a worker leaves its loop only when
\* the channel is closed and drained; teardown returns only after every
\* worker thread has ended, and then, no job having faulted, every submitted
\* job has run exactly once on exactly one worker; and a teardown that has
\* begun always ends.
C5_Teardown == []C5_TeardownSafe /\ ((mpc = "drop") ~> TeardownEnded)

C5_Witness ==
    /\ mpc = "dropped"
    /\ size = 2
    /\ nextJob > 2
    /\ \E j1, j2 \in Jobs : ranBy[j1] = {1} /\ ranBy[j2] = {2}

\* C6: a job that faults was accepted by an execute call that returned
\* normally, and once a worker has faulted teardown never completes normally.
C6_FaultSurfaces ==
    /\ \A j \in Jobs : jstate[j] = "faulted" => execRes[j] = "ok"
    /\ (\E w \in 1..size : wpc[w] = "panicked") => mpc # "dropped"

C6_Witness ==
    /\ mpc = "drop_panicked"
    /\ \E w \in 1..size : wpc[w] = "panicked"
    /\ \E w \in 1..size : wpc[w] = "exited"

-----------------------------------------------------------------------------
(***************************************************************************)
(* Claims about the sorted set.                                            *)
(***************************************************************************)
\* Earlier calls of the sequential client's log.
Before(j) == 1..(j - 1)

\* Call i inserted (removed) the key of call j and no call in between
\* removed (inserted) that key.
StillInserted(i, j) ==
    /\ log[i].op = "insert"
    /\ log[i].key = log[j].key
    /\ \A m \in (i + 1)..(j - 1) : ~(log[m].op = "remove" /\ log[m].key = log[j].key)

StillRemoved(i, j) ==
    /\ log[i].op = "remove"
    /\ log[i].key = log[j].key
    /\ \A m \in (i + 1)..(j - 1) : ~(log[m].op = "insert" /\ log[m].key = log[j].key)

\* C8: for one thread calling the methods one after the other, no call ends
\* the process; contains(x) right after insert(x) returns true and right
\* after remove(x) returns false; insert(x) returns false when an earlier
\* insert(x) was not followed by a remove(x); remove(x) returns false when an
\* earlier remove(x) was not followed by an insert(x).
C8_RoundTrip ==
    /\ ~crashed
    /\ \A j \in 1..Len(log) :
          /\ (j > 1 /\ log[j].op = "contains" /\ log[j - 1].key = log[j].key) =>
                /\ log[j - 1].op = "insert" => log[j].ret = "true"
                /\ log[j - 1].op = "remove" => log[j].ret = "false"
          /\ (log[j].op = "insert" /\ \E i \in Before(j) : StillInserted(i, j)) =>
                log[j].ret = "false"
          /\ (log[j].op = "remove" /\ \E i \in Before(j) : StillRemoved(i, j)) =>
                log[j].ret = "false"

\* The values along the chain from the head.
ChainData == [i \in 1..Len(Chain) |-> data[Chain[i]]]

StrictlyIncreasing(q) == \A i \in 1..(Len(q) - 1) : q[i] < q[i + 1]

\* C9: in every state the chain from the head ends (no cycle) and is
\* strictly increasing by value, and what an iterator has yielded so far is
\* strictly increasing.
C9_Sorted ==
    /\ Len(Chain) <= MaxAddr
    /\ StrictlyIncreasing(ChainData)
    /\ \A t \in SThreads : StrictlyIncreasing(yielded[t])

\* C10: with threads inserting pairwise disjoint sets of values, none held
\* before, every insert that has returned returned true, and the chain holds
\* exactly the prior values and the inserted ones, each in one node, in
\* increasing order, with no other node allocated.
C10_DisjointInserts ==
    /\ \A t \in SThreads : spc[t] = "done" => sret[t] = "true"
    /\ Len(Chain) <= MaxAddr
    /\ StrictlyIncreasing(ChainData)
    /\ {ChainData[i] : i \in 1..Len(Chain)} = prior \cup inserted
    /\ {Chain[i] : i \in 1..Len(Chain)} = live

C10_Witness ==
    /\ prior # {}
    /\ \A t \in SThreads : spc[t] = "done"
    /\ Cardinality(inserted) >= 3
    /\ \E i \in 1..(Len(Chain) - 1) : Chain[i] > Chain[i + 1]

-----------------------------------------------------------------------------
(***************************************************************************)
(* Claims about the sorted set under concurrent inserts and removes.       *)
(***************************************************************************)
\* Thread t is inside a call.
Active(t) == spc[t] \in {"lock", "link", "rm_take", "rm_lock", "rm_unlock"}

\* The mutex thread t must lock to take its next step, -1 when it needs none.
Awaited(t) ==
    IF spc[t] = "lock" THEN want[t]
    ELSE IF spc[t] = "rm_take" /\ nxt[cursor[t]] # 0 THEN nxt[cursor[t]]
    ELSE IF spc[t] = "rm_lock" /\ to_remove[t] # 0 THEN to_remove[t]
    ELSE -1

Blocked(t) == Awaited(t) # -1 /\ locked[Awaited(t)]

\* A traversal that holds a guard asks next for the mutex of the node its
\* slot points to: the successor in list order.
AscendingOrder ==
    \A t \in SThreads :
        (spc[t] = "lock" /\ cursor[t] # -1) => want[t] = nxt[cursor[t]]

\* The process is alive, some call is active and every active call waits for
\* a mutex that is locked.
NoneProgresses ==
    /\ ~crashed
    /\ \E t \in SThreads : Active(t)
    /\ \A t \in SThreads : Active(t) => Blocked(t)

\* C11: every call acquires the node locks in ascending list order, no
\* interleaving of concurrent calls reaches a state where every active call
\* is blocked on a lock, and each call eventually returns.
C11_DeadlockFree ==
    /\ [](AscendingOrder /\ ~NoneProgresses)
    /\ \A t \in SThreads : (spc[t] = "lock") ~> (spc[t] = "done")

\* The set has been dropped: its destructor has returned.
Dropped == \E t \in SThreads : sop[t] = "drop" /\ spc[t] = "done"

\* A step reclaims only nodes that are allocated at that time.
ReclaimsLive == \A a \in Addr : (a \in freed' /\ a \notin freed) => a \in live

\* C12: every node allocated by insert is reclaimed exactly once, by the
\* remove that unlinks it or by the destruction of the set: once the set is
\* dropped no node is left allocated, and no step reclaims a node that is not
\* allocated.
C12_NodeLifetime == [](Dropped => live = {}) /\ [][ReclaimsLive]_vars

\* The elements of the set: the values of the nodes on the chain.
Contents == {data[Chain[i]] : i \in 1..Len(Chain)}

\* The keys the first n calls of the sequential client inserted.
LogInserted(n) == {log[i].key : i \in {j \in 1..n : log[j].op = "insert" /\ log[j].ret = "true"}}

\* None of the first n calls of the sequential client was a remove of a
\* present key: the set then holds exactly the keys inserted.
NoRemoveAmong(n) == \A i \in 1..n : ~(log[i].op = "remove" /\ log[i].ret = "true")

\* C13: remove(key) of a present key unlinks exactly the node holding key,
\* whatever its position: once the first such remove has acted (it returned
\* true, or the process ended inside it), the set holds every element it
\* held before except key.
C13_RemoveExact ==
    /\ (/\ client = "sequential" /\ spc[1] = "done" /\ sop[1] = "remove"
        /\ sret[1] = "true" /\ NoRemoveAmong(Len(log) - 1))
       => Contents = LogInserted(Len(log) - 1) \ {skey[1]}
    /\ (/\ client = "sequential" /\ spc[1] = "crashed" /\ NoRemoveAmong(Len(log)))
       => Contents = LogInserted(Len(log)) \ {skey[1]}

\* Thread t takes the step of remove that writes the bypass pointer into the
\* slot its cursor holds (line 121).
WritesBypass(t) == spc[t] = "rm_lock" /\ spc'[t] = "rm_unlock"

\* C14: when remove writes the bypass pointer into the predecessor's slot,
\* the mutex of that slot and the mutex of the target node (the node holding
\* the key, which the slot pointed to) are both locked, and nothing is
\* reclaimed while they are: the reclaim comes after the release.
C14_RemoveProtocol ==
    [][\A t \in SThreads :
          WritesBypass(t) =>
              /\ locked'[cursor[t]]
              /\ locked'[nxt[cursor[t]]]
              /\ freed' = freed]_vars

\* The nodes thread t's next step reads, writes, locks or unlocks.  Address 0
\* is the head, which is part of the set itself, or a null pointer the code
\* tests for before it goes on.
Touched(t) ==
    (IF spc[t] = "lock" THEN {want[t], nxt[want[t]]} \cup ({cursor[t]} \ {-1})
     ELSE IF spc[t] = "link" THEN {cursor[t]}
     ELSE IF spc[t] = "rm_take" THEN {cursor[t], nxt[cursor[t]]}
     ELSE IF spc[t] \in {"rm_lock", "rm_unlock"} THEN {cursor[t], to_remove[t]}
     ELSE {}) \ {0}

\* Thread t's next step follows a null pointer without a test: `to_remove`
\* at line 120.
FollowsNull(t) == spc[t] = "rm_lock" /\ to_remove[t] = 0

\* C15: under every interleaving, no step of a call reads the value of,
\* follows the successor pointer of, or locks or unlocks the mutex of a node
\* that has been reclaimed, and none follows a null successor as a node.
C15_NoUseAfterReclaim ==
    [][\A t \in SThreads : SetStep(t) => (Touched(t) \subseteq live /\ ~FollowsNull(t))]_vars

-----------------------------------------------------------------------------
(***************************************************************************)
(* Claims about the cache's locks and about failing factories.             *)
(***************************************************************************)
\* Caller t is acquiring, waiting for or holding the lock of a slot: the read
\* lock of lines 68-69 or the write lock of lines 76-78.
AtSlotLock(t) == cpc[t] \in {"read", "store", "stored"}

\* C16: the table lock is held only for the check-or-insert of a slot: no
\* thread holds it while a factory is executing, and no thread holds it while
\* acquiring, waiting for or holding a slot's own lock.
C16_TableLockShort ==
    \A t \in Callers :
        write_lock = t =>
            /\ \A u \in Callers : cpc[u] # "factory"
            /\ ~AtSlotLock(t)

\* The keys whose factory has failed.
FailedKeys == {ckey[u] : u \in {v \in Callers : cwhy[v] = "factory"}}

\* C17: a factory failure is confined to its key.  In a behaviour where no
\* call met a slot whose factory was still running, every call that failed
\* asked for a key whose factory has failed: calls for the other keys
\* complete.
C17_FailureConfined ==
    (\A u \in Callers : cwhy[u] # "unready") =>
        \A t \in Callers : cpc[t] = "panicked" => ckey[t] \in FailedKeys

\* For every key whose factory has failed: the slot exists and is empty, no
\* other factory was invoked for the key, and no call for the key is running
\* a factory, storing a value or has returned.
C18_NoRetrySafe ==
    \A k \in FailedKeys :
        /\ k \in DOMAIN inner /\ inner[k] = None
        /\ invoked[k] = 1
        /\ \A t \in Callers :
               ckey[t] = k => cpc[t] \notin {"factory", "store", "stored", "returned"}

\* C18: no retry after a factory failure.  Once the factory for key k has
\* failed the slot for k never becomes ready, no later call for k invokes
\* its factory, and every call for k ends in a panic: none hangs.
C18_NoRetry ==
    /\ []C18_NoRetrySafe
    /\ \A t \in Callers : (ckey[t] \in FailedKeys) ~> (cpc[t] = "panicked")

\* The factory of a key has failed and a later call for the key has found
\* the slot empty and panicked; no factory but the first was invoked.
C18_Witness ==
    \E u, t \in Callers :
        /\ cwhy[u] = "factory"
        /\ ckey[t] = ckey[u] /\ cwhy[t] = "failed"
        /\ invoked[ckey[u]] = 1

-----------------------------------------------------------------------------
(***************************************************************************)
(* Claims about the pool's job counter and its completion condition.       *)
(***************************************************************************)
\* The workers that have called start_job for their job and not finish_job.
Started == {w \in 1..size : wpc[w] \in {"running", "ran"}}

\* C19: provided no job faults, the active-job counter equals the number of
\* jobs a worker has started and not finished, so it is never negative and
\* never exceeds the pool size.
C19_CounterExact ==
    NoFault =>
        /\ job_count = Cardinality(Started)
        /\ job_count >= 0
        /\ job_count <= size

\* One job has been counted in and out again and another is counted in.
C19_Witness ==
    /\ NoFault
    /\ job_count = 1
    /\ \E j \in Jobs : runs[j] = 1 /\ \A w \in Workers : wjob[w] # j
    /\ \E w \in Workers : wpc[w] = "running"

\* C20: a worker whose end-of-job decrement brings the counter to zero
\* signals the completion condition, and join() returns once the counter is
\* zero, not before.
C20_SignalOnZero ==
    [][/\ \A w \in Workers :
            (finish_job(w) /\ job_count' = 0) => empty_condvar' # empty_condvar
       /\ wait_empty => job_count = 0]_vars

=============================================================================
